---- MODULE Spec2Model ----
(***************************************************************************)
(* Model of the Gyneo cycle tracker (src/src/App.tsx): the state of the    *)
(* Gyneo component, the remote document store it talks to, the writes in   *)
(* flight, and the handlers that connect them.                             *)
(*                                                                         *)
(* Time is counted in ticks, TicksPerDay ticks a day.  A calendar date is  *)
(* the number of its day; new Date("YYYY-MM-DD") is UTC midnight of that   *)
(* day, formatDate(new Date()) is the date of the local wall clock.        *)
(*                                                                         *)
(* A JavaScript object is a function from the keys it has to their values: *)
(* a key that is missing is outside DOMAIN, a key that is null maps to     *)
(* Null.  The spread {...l, ...data} is data @@ l.                         *)
(*                                                                         *)
(* A write is queued when its handler issues it and is acknowledged or     *)
(* rejected later, oldest first.  A listener sees the acknowledged         *)
(* documents with the queued writes of its user applied on top.            *)
(*                                                                         *)
(* Spec is a session of edits on two dates with the clock at rest;         *)
(* SpecStats is a session that only reads a stored history spread over     *)
(* seven weeks while time passes; SpecCalendar is SpecStats with the views *)
(* to navigate to; SpecSession is two users signing in and out, with the   *)
(* failures of initialization and of the subscriptions; SpecSettingsForm,  *)
(* SpecForms and SpecLogForm are sessions at the two forms.                *)
(***************************************************************************)
EXTENDS Integers, Sequences, FiniteSets, TLC

VARIABLES
    user,            \* useState<User | null>
    view,            \* useState<'dashboard' | 'calendar' | 'log' | 'settings'>
    logs,            \* useState<DailyLog[]>: the local log list
    settings,        \* useState<UserSettings>
    loading,         \* useState(true)
    currentDay,      \* derived statistics
    daysUntilNext,
    isPeriodToday,
    predicted,       \* predictedCycleLength of the last calculateCycleStats run
    captured,        \* settings closed over by the subscribed logs callback
    subscribed,      \* uid whose settings+logs subscriptions are live, or NoUser
    remoteLogs,      \* uid -> (doc id -> document) of .../users/uid/logs
    remoteSettings,  \* uid -> (doc id -> document) of .../users/uid/settings
    pending,         \* writes issued and not yet acknowledged, oldest first
    edits,           \* how many edits the user has made (capped by MaxEdits)
    now,             \* the current instant, in ticks
    tz,              \* offset of the local wall clock from UTC, in ticks
    auth,            \* the module's auth object: "Auth" or the placeholder {}
    phase,           \* where the component is: rendered, listening or crashed
    settingsSub,     \* uid of the settings listener the effect's cleanup cancels
    leaked,          \* uids of settings listeners that no cleanup cancels
    effects,         \* what the last step wrote to the console or alerted
    settingsForm,    \* useState of SettingsForm while it is mounted, else Null
    logForm          \* useState of DailyLogger while it is mounted, else Null

vars == <<user, view, logs, settings, loading, currentDay, daysUntilNext,
          isPeriodToday, predicted, captured, subscribed, remoteLogs,
          remoteSettings, pending, edits, now, tz, auth, phase, settingsSub,
          leaked, effects, settingsForm, logForm>>

----------------------------------------------------------------------------
(* Bounds *)

TicksPerDay == 2
MaxPending == 2
MaxEdits == 2
MaxTicks == 2

(* Values *)

NoUser == "null"
Null == "null"
Users == {"u1"}
Views == {"dashboard", "calendar", "log", "settings"}
Flows == {"Medium"}
Moods == {"Happy"}
SymptomLabels == {"Cramps"}
EditDates == {47, 48}
StatDates == {0, 3, 23, 24, 48}
MoodDates == {23}
FirstTick == 48 * TicksPerDay + 1
TzOffsets == {-1, 0, 1}
CycleLengths == {28, 30}
PeriodLengths == {5}
DefaultCycleLength == 28
DefaultPeriodLength == 5
DefaultDaysUntilNext == 28
GroupGap == 7
MinGap == 20
MaxGap == 45

DefaultSettings ==
    [cycleLength |-> DefaultCycleLength, periodLength |-> DefaultPeriodLength]

----------------------------------------------------------------------------
(* Date helpers *)

Abs(x) == IF x < 0 THEN -x ELSE x
\* the second argument, whatever the first is
Max_Second(a, b) == b

\* Math.max(a, b)
Max(a, b) == IF a > b THEN a ELSE b

\* new Date(dateStr).getTime()
DateTime(d) == d * TicksPerDay

\* formatDate(new Date())
formatDate(t) == (t + tz) \div TicksPerDay

\* Math.ceil(Math.abs(a - b) / oneDay)
CeilDays(a, b) == (Abs(a - b) + TicksPerDay - 1) \div TicksPerDay

\* Math.round(total / count), for total >= 0 and count > 0
Round(total, count) == (2 * total + count) \div (2 * count)

----------------------------------------------------------------------------
(* JavaScript objects *)

Has(o, k) == k \in DOMAIN o

\* !o.flow, !o.mood
Falsy(o, k) == IF Has(o, k) THEN o[k] = Null ELSE TRUE

\* !o.symptoms || o.symptoms.length === 0
NoSymptoms(o) == IF Has(o, "symptoms") THEN o["symptoms"] = {} ELSE TRUE

\* the document map without key k
Without(f, k) == [x \in DOMAIN f \ {k} |-> f[x]]

\* prev.find(l => l.date === dateStr) !== undefined
Exists(list, d) == \E i \in 1..Len(list) : list[i]["date"] = d

\* prev.find(l => l.date === dateStr), when it exists
Find(list, d) ==
    list[CHOOSE i \in 1..Len(list) :
            /\ list[i]["date"] = d
            /\ \A j \in 1..(i - 1) : list[j]["date"] # d]

----------------------------------------------------------------------------
(* calculateCycleStats *)

\* l.flow !== null  (a missing flow is undefined, which is not null)
FlowNotNull(l) == IF Has(l, "flow") THEN l["flow"] # Null ELSE TRUE

\* l.flow as a condition
FlowTruthy(l) == IF Has(l, "flow") THEN l["flow"] # Null ELSE FALSE

RECURSIVE InsertDesc(_, _)
InsertDesc(l, sorted) ==
    IF sorted = <<>> THEN <<l>>
    ELSE IF Head(sorted)["date"] >= l["date"]
         THEN <<Head(sorted)>> \o InsertDesc(l, Tail(sorted))
         ELSE <<l>> \o sorted

RECURSIVE SortDesc(_)
SortDesc(list) ==
    IF list = <<>> THEN <<>>
    ELSE InsertDesc(list[Len(list)], SortDesc(SubSeq(list, 1, Len(list) - 1)))

\* currentLogs.filter(l => l.flow !== null).sort(newest first)
flowLogs(currentLogs) == SortDesc(SelectSeq(currentLogs, FlowNotNull))

\* days between two dates, as the loops compute it from getTime()
DayDiff(d1, d2) == Abs(DateTime(d1) - DateTime(d2)) \div TicksPerDay

\* the for loop that fills periodStarts, from index i on
RECURSIVE CollectStarts(_, _, _)
CollectStarts(fl, i, acc) ==
    IF i > Len(fl) THEN acc
    ELSE CollectStarts(fl, i + 1,
            IF DayDiff(fl[i - 1]["date"], fl[i]["date"]) > GroupGap
            THEN Append(acc, fl[i]["date"])
            ELSE acc)

periodStarts(fl) == CollectStarts(fl, 2, <<fl[1]["date"]>>)

\* gap > 20 && gap < 45
GapKept(gap) == gap > MinGap /\ gap < MaxGap

\* the gaps between successive entries of periodStarts
Gaps(ps) == [i \in 1..(Len(ps) - 1) |-> DayDiff(ps[i], ps[i + 1])]

RECURSIVE SumSeq(_)
SumSeq(s) == IF s = <<>> THEN 0 ELSE Head(s) + SumSeq(Tail(s))

\* predictedCycleLength for a non-empty flowLogs fl and the settings st
predictedCycleLength(fl, st) ==
    IF Len(fl) >= 2
    THEN LET ps == periodStarts(fl)
             kept == SelectSeq(Gaps(ps), GapKept)
         IN  IF Len(ps) >= 2 /\ Len(kept) > 0
             THEN Round(SumSeq(kept), Len(kept))
             ELSE st["cycleLength"]
    ELSE st["cycleLength"]

\* the four values calculateCycleStats leaves in the state; predicted is 0
\* when the function returns before it declares predictedCycleLength
calculateCycleStats(currentLogs, st, t) ==
    LET fl == flowLogs(currentLogs) IN
    IF Len(fl) = 0
    THEN [currentDay |-> 1, daysUntilNext |-> DefaultDaysUntilNext,
          isPeriodToday |-> FALSE, predicted |-> 0]
    ELSE LET diffDays == CeilDays(t, DateTime(fl[1]["date"]))
             p == predictedCycleLength(fl, st)
         IN  [currentDay |-> diffDays,
              daysUntilNext |-> Max(0, p - diffDays),
              isPeriodToday |->
                  \E i \in 1..Len(currentLogs) :
                      /\ currentLogs[i]["date"] = formatDate(t)
                      /\ FlowTruthy(currentLogs[i]),
              predicted |-> p]

----------------------------------------------------------------------------
(* The remote document store *)

SettingsDocId == "preferences"

\* a write that replaces the whole collection by its one document
ApplyToLogs_Replace(docs, w) ==
    IF w["kind"] = "deleteDoc" THEN <<>>
    ELSE IF w["kind"] = "setDocMerge" THEN (w["id"] :> w["data"])
    ELSE docs

\* what one acknowledged write does to a user's log documents
ApplyToLogs(docs, w) ==
    IF w["kind"] = "deleteDoc" THEN Without(docs, w["id"])
    ELSE IF w["kind"] = "setDocMerge"
         THEN IF w["id"] \in DOMAIN docs
              THEN (w["id"] :> (w["data"] @@ docs[w["id"]])) @@ docs
              ELSE (w["id"] :> w["data"]) @@ docs
         ELSE docs

\* what one acknowledged write does to a user's settings documents
ApplyToSettings(docs, w) ==
    IF w["kind"] = "setDoc" THEN (w["id"] :> w["data"]) @@ docs ELSE docs

\* the documents a listener of uid sees: the acknowledged ones with this
\* client's unacknowledged writes applied on top, oldest first
RECURSIVE ViewLogs(_, _, _)
ViewLogs(docs, ws, uid) ==
    IF ws = <<>> THEN docs
    ELSE ViewLogs(IF Head(ws)["uid"] = uid THEN ApplyToLogs(docs, Head(ws))
                  ELSE docs, Tail(ws), uid)

RECURSIVE ViewSettings(_, _, _)
ViewSettings(docs, ws, uid) ==
    IF ws = <<>> THEN docs
    ELSE ViewSettings(IF Head(ws)["uid"] = uid
                      THEN ApplyToSettings(docs, Head(ws))
                      ELSE docs, Tail(ws), uid)

\* query(collection, orderBy('date', 'desc')) mapped to { id: d.id, ...d.data() }
RECURSIVE OrderByDateDesc(_)
OrderByDateDesc(docs) ==
    IF DOMAIN docs = {} THEN <<>>
    ELSE LET k == CHOOSE x \in DOMAIN docs :
                      \A y \in DOMAIN docs : docs[y]["date"] <= docs[x]["date"]
         IN  <<docs[k] @@ ("id" :> k)>> \o OrderByDateDesc(Without(docs, k))

----------------------------------------------------------------------------
(* Initial state: nothing stored yet, the wall clock on UTC *)

Init ==
    /\ user = NoUser
    /\ view = "dashboard"
    /\ logs = <<>>
    /\ settings = DefaultSettings
    /\ loading = TRUE
    /\ currentDay = 1
    /\ daysUntilNext = DefaultDaysUntilNext
    /\ isPeriodToday = FALSE
    /\ predicted = 0
    /\ captured = DefaultSettings
    /\ subscribed = NoUser
    /\ remoteLogs = [u \in Users |-> <<>>]
    /\ remoteSettings = [u \in Users |-> <<>>]
    /\ pending = <<>>
    /\ edits = 0
    /\ now = FirstTick
    /\ tz = 0
    /\ auth = "Auth"
    /\ phase = "rendered"
    /\ settingsSub = NoUser
    /\ leaked = {}
    /\ effects = {}
    /\ settingsForm = Null
    /\ logForm = Null

----------------------------------------------------------------------------
(* Handlers *)

\* views that are offered whatever the session is
Shown_NoGate == TRUE

\* the views and their buttons are on screen
Shown == user # NoUser /\ ~loading

\* the fields DailyLogger shows for the record of date d of a list:
\* existingLog?.mood || null, existingLog?.flow || null,
\* existingLog?.symptoms || []
FormOf(list, d) ==
    IF Exists(list, d)
    THEN LET l == Find(list, d) IN
         [mood |-> IF Has(l, "mood") THEN l["mood"] ELSE Null,
          flow |-> IF Has(l, "flow") THEN l["flow"] ELSE Null,
          symptoms |-> IF Has(l, "symptoms") THEN l["symptoms"] ELSE {}]
    ELSE [mood |-> Null, flow |-> Null, symptoms |-> {}]

\* SettingsForm after the render a step causes: mounted while the settings
\* view is on screen, its fields set from the settings when it mounts and
\* kept while it stays mounted
RenderSettingsForm ==
    settingsForm' =
        IF Shown' /\ view' = "settings"
        THEN IF Shown /\ view = "settings" THEN settingsForm ELSE settings'
        ELSE Null

\* DailyLogger after the render a step causes: mounted while the log view
\* is on screen, its fields set from existingLog when it mounts and again
\* whenever the step has changed the existingLog object it is given
RenderLogForm(existingLogChanged) ==
    logForm' =
        IF Shown' /\ view' = "log"
        THEN IF Shown /\ view = "log" /\ ~existingLogChanged
             THEN logForm
             ELSE FormOf(logs', formatDate(now'))
        ELSE Null

\* the rendered screen: the loading screen while loading, the login screen
\* without a user, the views otherwise; nothing once React has unmounted
Screen ==
    IF phase = "crashed" THEN "blank"
    ELSE IF loading THEN "loading"
    ELSE IF user = NoUser THEN "login"
    ELSE "app"

\* the effect that registers the auth listener when the component mounts:
\* the placeholder {} has no listener to register with, the call throws
\* and nothing catches it
AuthEffect ==
    /\ phase = "rendered"
    /\ phase' = IF auth = "Auth" THEN "listening" ELSE "crashed"
    /\ effects' = {}
    /\ UNCHANGED <<user, view, logs, settings, loading, currentDay,
                   daysUntilNext, isPeriodToday, predicted, captured,
                   subscribed, remoteLogs, remoteSettings, pending, edits,
                   now, tz, auth, settingsSub, leaked>>
    /\ RenderSettingsForm
    /\ RenderLogForm(FALSE)

\* what the data-fetching effect prints when a subscription cannot be set up
SetupErrors(settingsOk, logsOk) ==
    (IF settingsOk THEN {} ELSE {"console.log: Settings fetch failed"})
    \cup (IF logsOk THEN {} ELSE {"console.error: Firestore setup failed"})

\* the auth listener, the re-render it causes, and the data-fetching effect
\* that the re-render runs when user has changed: the cleanup the previous
\* run returned, then the two subscriptions, each of which may throw.  The
\* effect returns a cleanup only when the logs subscription was set up.
onAuthStateChanged(u, settingsOk, logsOk) ==
    /\ phase = "listening"
    /\ u # user \/ loading
    /\ user' = u
    /\ loading' = FALSE
    /\ IF u = user
       THEN /\ UNCHANGED <<subscribed, settingsSub, leaked, captured>>
            /\ effects' = {}
       ELSE IF u = NoUser
       THEN /\ subscribed' = NoUser
            /\ settingsSub' = NoUser
            /\ UNCHANGED <<leaked, captured>>
            /\ effects' = {}
       ELSE /\ subscribed' = IF logsOk THEN u ELSE NoUser
            /\ settingsSub' = IF settingsOk /\ logsOk THEN u ELSE NoUser
            /\ leaked' = IF settingsOk /\ ~logsOk THEN leaked \cup {u} ELSE leaked
            /\ captured' = IF logsOk THEN settings ELSE captured
            /\ effects' = SetupErrors(settingsOk, logsOk)
    /\ UNCHANGED <<view, logs, settings, currentDay, daysUntilNext,
                   isPeriodToday, predicted, remoteLogs, remoteSettings,
                   pending, edits, now, tz, auth, phase>>
    /\ RenderSettingsForm
    /\ RenderLogForm(FALSE)

\* the uids that have a live settings listener
SettingsListeners == ({settingsSub} \cup leaked) \ {NoUser}

\* a snapshot test that never finds the document
SnapExists_Never(snap) == FALSE

\* snap.exists()
SnapExists(snap) == SettingsDocId \in DOMAIN snap

\* the settings listener of uid
SettingsSnapshotOf(uid) ==
    /\ LET snap == ViewSettings(remoteSettings[uid], pending, uid)
       IN  IF SnapExists(snap)
           THEN /\ settings' = snap[SettingsDocId]
                /\ UNCHANGED pending
           ELSE /\ Len(pending) < MaxPending
                /\ pending' = Append(pending,
                       [kind |-> "setDoc", uid |-> uid,
                        id |-> SettingsDocId, data |-> DefaultSettings,
                        from |-> "snapshot"])
                /\ UNCHANGED settings
    /\ effects' = {}
    /\ UNCHANGED <<user, view, logs, loading, currentDay, daysUntilNext,
                   isPeriodToday, predicted, captured, subscribed, remoteLogs,
                   remoteSettings, edits, now, tz,
                   auth, phase, settingsSub, leaked>>
    /\ RenderSettingsForm
    /\ RenderLogForm(FALSE)

SettingsSnapshot == \E uid \in SettingsListeners : SettingsSnapshotOf(uid)

\* a logs listener that keeps the local records the snapshot does not have
LogsSnapshot_KeepsLocal ==
    /\ subscribed # NoUser
    /\ LET fetchedLogs == OrderByDateDesc(
                              ViewLogs(remoteLogs[subscribed], pending, subscribed))
           stats == calculateCycleStats(fetchedLogs, captured, now)
           IsLocalOnly(l) == ~Exists(fetchedLogs, l["date"])
       IN  /\ logs' = fetchedLogs \o SelectSeq(logs, IsLocalOnly)
           /\ currentDay' = stats["currentDay"]
           /\ daysUntilNext' = stats["daysUntilNext"]
           /\ isPeriodToday' = stats["isPeriodToday"]
           /\ predicted' = stats["predicted"]
    /\ loading' = FALSE
    /\ effects' = {}
    /\ UNCHANGED <<user, view, settings, captured, subscribed, remoteLogs,
                   remoteSettings, pending, edits, now, tz,
                   auth, phase, settingsSub, leaked>>
    /\ RenderSettingsForm
    /\ RenderLogForm(Exists(logs, formatDate(now)) \/ Exists(logs', formatDate(now)))

\* the logs listener
LogsSnapshot ==
    /\ subscribed # NoUser
    /\ LET fetchedLogs == OrderByDateDesc(
                              ViewLogs(remoteLogs[subscribed], pending, subscribed))
           stats == calculateCycleStats(fetchedLogs, captured, now)
       IN  /\ logs' = fetchedLogs
           /\ currentDay' = stats["currentDay"]
           /\ daysUntilNext' = stats["daysUntilNext"]
           /\ isPeriodToday' = stats["isPeriodToday"]
           /\ predicted' = stats["predicted"]
    /\ loading' = FALSE
    /\ effects' = {}
    /\ UNCHANGED <<user, view, settings, captured, subscribed, remoteLogs,
                   remoteSettings, pending, edits, now, tz,
                   auth, phase, settingsSub, leaked>>
    /\ RenderSettingsForm
    /\ RenderLogForm(Exists(logs, formatDate(now)) \/ Exists(logs', formatDate(now)))

\* the updater without its search for an existing record of the date
OptimisticUpdate_AlwaysPrepend(prev, data, t) ==
    <<data @@ [id |-> data["date"], createdAt |-> t]>> \o prev

\* the updater handleLogSave passes to setLogs
OptimisticUpdate(prev, data, t) ==
    IF Exists(prev, data["date"])
    THEN [i \in 1..Len(prev) |->
             IF prev[i]["date"] = data["date"] THEN data @@ prev[i] ELSE prev[i]]
    ELSE <<data @@ [id |-> data["date"], createdAt |-> t]>> \o prev

\* !data.flow && !data.mood && !data.symptoms: an empty array is truthy
ClearsAll_TruthyArray(data) ==
    Falsy(data, "flow") /\ Falsy(data, "mood") /\ ~Has(data, "symptoms")

\* !data.flow && !data.mood && (!data.symptoms || data.symptoms.length === 0)
ClearsAll(data) ==
    Falsy(data, "flow") /\ Falsy(data, "mood") /\ NoSymptoms(data)

\* the write handleLogSave issues for data
LogWrite(data, uid) ==
    [kind |-> IF ClearsAll(data) THEN "deleteDoc" ELSE "setDocMerge",
     uid |-> uid, id |-> data["date"], data |-> data, from |-> "handleLogSave"]

handleLogSave(data) ==
    /\ logs' = OptimisticUpdate(logs, data, now)
    /\ IF user = NoUser
       THEN UNCHANGED pending
       ELSE /\ Len(pending) < MaxPending
            /\ pending' = Append(pending, LogWrite(data, user))
    /\ effects' = {}
    /\ UNCHANGED <<user, view, settings, loading, currentDay, daysUntilNext,
                   isPeriodToday, predicted, captured, subscribed, remoteLogs,
                   remoteSettings, now, tz,
                   auth, phase, settingsSub, leaked>>
    /\ RenderSettingsForm
    /\ RenderLogForm(data["date"] = formatDate(now))
    /\ edits < MaxEdits
    /\ edits' = edits + 1

\* DailyLogger.handleSave with the form holding flow, mood and symptoms
handleSave(flow, mood, symptoms) ==
    /\ Shown
    /\ view = "log"
    /\ handleLogSave([date |-> formatDate(now), mood |-> mood, flow |-> flow,
                      symptoms |-> symptoms])

\* a toggle that only ever turns the period on
ToggleData_AlwaysOn(list, date) == [date |-> date, flow |-> "Medium"]

\* the data handleTogglePeriod saves for date, given the rendered log list
ToggleData(list, date) ==
    IF Exists(list, date) /\ FlowTruthy(Find(list, date))
    THEN [date |-> date, flow |-> Null]
    ELSE [date |-> date, flow |-> "Medium"]

handleTogglePeriod(date) ==
    /\ Shown
    /\ view = "calendar"
    /\ handleLogSave(ToggleData(logs, date))

\* a write of the settings state instead of the submitted values
SettingsWrite_Stale(newSettings, uid) ==
    [kind |-> "setDoc", uid |-> uid, id |-> SettingsDocId,
     data |-> settings, from |-> "handleSaveSettings"]

\* the write handleSaveSettings issues
SettingsWrite(newSettings, uid) ==
    [kind |-> "setDoc", uid |-> uid, id |-> SettingsDocId,
     data |-> newSettings, from |-> "handleSaveSettings"]

\* handleSaveSettings up to its await
handleSaveSettings(newSettings) ==
    /\ Shown
    /\ view = "settings"
    /\ Len(pending) < MaxPending
    /\ pending' = Append(pending, SettingsWrite(newSettings, user))
    /\ effects' = {}
    /\ UNCHANGED <<user, view, logs, settings, loading, currentDay,
                   daysUntilNext, isPeriodToday, predicted, captured,
                   subscribed, remoteLogs, remoteSettings, now, tz,
                   auth, phase, settingsSub, leaked>>
    /\ settingsForm' = newSettings
    /\ RenderLogForm(FALSE)
    /\ edits < MaxEdits
    /\ edits' = edits + 1

\* the statement after the try of handleSaveSettings, run when its write settles
AfterWrite(w) ==
    IF w["from"] = "handleSaveSettings" THEN view' = "dashboard"
    ELSE UNCHANGED view

\* the store acknowledges the oldest write
WriteCommit ==
    /\ pending # <<>>
    /\ LET w == Head(pending) IN
       /\ remoteLogs' = [remoteLogs EXCEPT
              ![w["uid"]] = ApplyToLogs(remoteLogs[w["uid"]], w)]
       /\ remoteSettings' = [remoteSettings EXCEPT
              ![w["uid"]] = ApplyToSettings(remoteSettings[w["uid"]], w)]
       /\ AfterWrite(w)
    /\ pending' = Tail(pending)
    /\ effects' = {}
    /\ UNCHANGED <<user, logs, settings, loading, currentDay, daysUntilNext,
                   isPeriodToday, predicted, captured, subscribed, edits, now, tz,
                   auth, phase, settingsSub, leaked>>
    /\ RenderSettingsForm
    /\ RenderLogForm(FALSE)

\* what the catch block of the handler that issued w prints and alerts; the
\* setDoc of the settings listener has no catch block
CatchEffects(w) ==
    IF w["from"] = "handleLogSave"
    THEN {"console.error: Save failed", "alert: Failed to save to cloud"}
    ELSE IF w["from"] = "handleSaveSettings"
    THEN {"console.error: Failed to save settings"}
    ELSE {}

\* a rejection that takes the record of the rejected write off the list
WriteFail_RollsBack ==
    /\ pending # <<>>
    /\ AfterWrite(Head(pending))
    /\ effects' = CatchEffects(Head(pending))
    /\ pending' = Tail(pending)
    /\ LET IsOther(l) == l["date"] # Head(pending)["id"]
       IN  logs' = SelectSeq(logs, IsOther)
    /\ UNCHANGED <<user, settings, loading, currentDay, daysUntilNext,
                   isPeriodToday, predicted, captured, subscribed, remoteLogs,
                   remoteSettings, edits, now, tz,
                   auth, phase, settingsSub, leaked>>
    /\ RenderSettingsForm
    /\ RenderLogForm(FALSE)

\* the store rejects the oldest write
WriteFail ==
    /\ pending # <<>>
    /\ AfterWrite(Head(pending))
    /\ effects' = CatchEffects(Head(pending))
    /\ pending' = Tail(pending)
    /\ UNCHANGED <<user, logs, settings, loading, currentDay, daysUntilNext,
                   isPeriodToday, predicted, captured, subscribed, remoteLogs,
                   remoteSettings, edits, now, tz,
                   auth, phase, settingsSub, leaked>>
    /\ RenderSettingsForm
    /\ RenderLogForm(FALSE)

\* the navigation buttons
setView(v) ==
    /\ Shown
    /\ v # view
    /\ view' = v
    /\ effects' = {}
    /\ UNCHANGED <<user, logs, settings, loading, currentDay, daysUntilNext,
                   isPeriodToday, predicted, captured, subscribed, remoteLogs,
                   remoteSettings, pending, edits, now, tz,
                   auth, phase, settingsSub, leaked>>
    /\ RenderSettingsForm
    /\ RenderLogForm(FALSE)

\* time passes
Tick ==
    /\ now < FirstTick + MaxTicks
    /\ now' = now + 1
    /\ effects' = {}
    /\ UNCHANGED <<user, view, logs, settings, loading, currentDay,
                   daysUntilNext, isPeriodToday, predicted, captured,
                   subscribed, remoteLogs, remoteSettings, pending, edits, tz,
                   auth, phase, settingsSub, leaked>>
    /\ RenderSettingsForm
    /\ RenderLogForm(/\ formatDate(now') # formatDate(now)
                     /\ Exists(logs, formatDate(now)) \/ Exists(logs, formatDate(now')))

----------------------------------------------------------------------------
(* Specification *)

Next ==
    \/ AuthEffect
    \/ \E u \in Users \cup {NoUser} : onAuthStateChanged(u, TRUE, TRUE)
    \/ SettingsSnapshot
    \/ LogsSnapshot
    \/ \E flow \in Flows \cup {Null}, mood \in Moods \cup {Null},
          symptoms \in SUBSET SymptomLabels : handleSave(flow, mood, symptoms)
    \/ \E date \in EditDates : handleTogglePeriod(date)
    \/ \E c \in CycleLengths, p \in PeriodLengths :
          handleSaveSettings([cycleLength |-> c, periodLength |-> p])
    \/ WriteCommit
    \/ WriteFail
    \/ \E v \in Views : setView(v)

Spec == Init /\ [][Next]_vars

----------------------------------------------------------------------------
(* The statistics over a stored history: the store already holds the logs  *)
(* and settings of earlier days, the user signs in and out and only reads, *)
(* and time passes.                                                        *)

\* a document as handleTogglePeriod stores it
FlowDoc(d) == [date |-> d, flow |-> "Medium"]

\* a document as DailyLogger.handleSave stores it
MoodDoc(d) == [date |-> d, mood |-> "Happy", flow |-> Null, symptoms |-> {}]

StoredLogs ==
    {[d \in F \cup M |-> IF d \in F THEN FlowDoc(d) ELSE MoodDoc(d)] :
        F \in SUBSET StatDates, M \in SUBSET MoodDates}

StoredSettings ==
    {<<>>} \cup {SettingsDocId :> [cycleLength |-> c, periodLength |-> p] :
                    c \in CycleLengths, p \in PeriodLengths}

InitStats ==
    /\ user = NoUser
    /\ view = "dashboard"
    /\ logs = <<>>
    /\ settings = DefaultSettings
    /\ loading = TRUE
    /\ currentDay = 1
    /\ daysUntilNext = DefaultDaysUntilNext
    /\ isPeriodToday = FALSE
    /\ predicted = 0
    /\ captured = DefaultSettings
    /\ subscribed = NoUser
    /\ remoteLogs \in [Users -> StoredLogs]
    /\ remoteSettings \in [Users -> StoredSettings]
    /\ pending = <<>>
    /\ edits = 0
    /\ now = FirstTick
    /\ tz \in TzOffsets
    /\ auth = "Auth"
    /\ phase = "rendered"
    /\ settingsSub = NoUser
    /\ leaked = {}
    /\ effects = {}
    /\ settingsForm = Null
    /\ logForm = Null

NextStats ==
    \/ AuthEffect
    \/ \E u \in Users \cup {NoUser} : onAuthStateChanged(u, TRUE, TRUE)
    \/ SettingsSnapshot
    \/ LogsSnapshot
    \/ WriteCommit
    \/ WriteFail
    \/ Tick

SpecStats == InitStats /\ [][NextStats]_vars

----------------------------------------------------------------------------
(* Sessions: two users with stored data sign in and out on one device and *)
(* only read, the backend may have failed to initialize, and setting up a  *)
(* subscription or the logs subscription itself may fail.                  *)

SessionUsers == {"u1", "u2"}

\* a logs listener whose error callback also clears the list
LogsSnapshotError_Clears ==
    /\ subscribed # NoUser
    /\ loading' = FALSE
    /\ logs' = <<>>
    /\ effects' = {"console.error: Firestore error"}
    /\ UNCHANGED <<user, view, settings, currentDay, daysUntilNext,
                   isPeriodToday, predicted, captured, subscribed, remoteLogs,
                   remoteSettings, pending, edits, now, tz,
                   auth, phase, settingsSub, leaked>>
    /\ RenderSettingsForm
    /\ RenderLogForm(FALSE)

\* the error callback of the logs listener
LogsSnapshotError ==
    /\ subscribed # NoUser
    /\ loading' = FALSE
    /\ effects' = {"console.error: Firestore error"}
    /\ UNCHANGED <<user, view, logs, settings, currentDay, daysUntilNext,
                   isPeriodToday, predicted, captured, subscribed, remoteLogs,
                   remoteSettings, pending, edits, now, tz,
                   auth, phase, settingsSub, leaked>>
    /\ RenderSettingsForm
    /\ RenderLogForm(FALSE)

\* u1 has a period logged and settings saved, u2 has a mood logged and no
\* settings document yet
InitSession ==
    /\ user = NoUser
    /\ view = "dashboard"
    /\ logs = <<>>
    /\ settings = DefaultSettings
    /\ loading = TRUE
    /\ currentDay = 1
    /\ daysUntilNext = DefaultDaysUntilNext
    /\ isPeriodToday = FALSE
    /\ predicted = 0
    /\ captured = DefaultSettings
    /\ subscribed = NoUser
    /\ remoteLogs = ("u1" :> (24 :> FlowDoc(24))) @@ ("u2" :> (23 :> MoodDoc(23)))
    /\ remoteSettings =
          ("u1" :> (SettingsDocId :> [cycleLength |-> 30, periodLength |-> 5]))
          @@ ("u2" :> <<>>)
    /\ pending = <<>>
    /\ edits = 0
    /\ now = FirstTick
    /\ tz = 0
    /\ auth \in {"Auth", "placeholder"}
    /\ phase = "rendered"
    /\ settingsSub = NoUser
    /\ leaked = {}
    /\ effects = {}
    /\ settingsForm = Null
    /\ logForm = Null

NextSession ==
    \/ AuthEffect
    \/ \E u \in SessionUsers \cup {NoUser}, settingsOk \in BOOLEAN, logsOk \in BOOLEAN :
          onAuthStateChanged(u, settingsOk, logsOk)
    \/ SettingsSnapshot
    \/ LogsSnapshot
    \/ LogsSnapshotError
    \/ WriteCommit
    \/ WriteFail

SpecSession == InitSession /\ [][NextSession]_vars

----------------------------------------------------------------------------
(* Calendar: how the month grid classifies a date, given the log list and  *)
(* the settings of the state it is rendered from.  The session is the one  *)
(* of SpecStats with the navigation buttons added.                         *)

CalendarDays == 33
FirstCalendarDate == 47
CalendarDates == FirstCalendarDate..(FirstCalendarDate + CalendarDays)

\* logs.filter(l => l.flow).map(l => l.date)
periodDays(list) ==
    {list[i]["date"] : i \in {j \in 1..Len(list) : FlowTruthy(list[j])}}

\* the last of the sorted periodDays, when there is one
lastPeriodStart(list) ==
    CHOOSE x \in periodDays(list) : \A y \in periodDays(list) : y <= x

\* Math.round(Math.abs(start - end) / oneDay)
getDaysBetween(a, b) == Round(Abs(a - b), TicksPerDay)

\* current > new Date()
isFuture(d, t) == DateTime(d) > t

\* Math.ceil(diffTime / day) between the date and lastPeriodStart
diffDays(list, d) == CeilDays(DateTime(d), DateTime(lastPeriodStart(list)))

\* the prediction without its test for the next cycle
isPredicted_EveryCycle(list, st, d, t) ==
    /\ periodDays(list) # {}
    /\ isFuture(d, t)
    /\ st["cycleLength"] # 0
    /\ diffDays(list, d) % Abs(st["cycleLength"]) < st["periodLength"]
    /\ diffDays(list, d) > 0

\* isPredicted of getDateStatus; x % 0 is NaN, which is less than nothing
isPredicted(list, st, d, t) ==
    /\ periodDays(list) # {}
    /\ isFuture(d, t)
    /\ st["cycleLength"] # 0
    /\ diffDays(list, d) % Abs(st["cycleLength"]) < st["periodLength"]
    /\ diffDays(list, d) > 0
    /\ LET daysSinceLast ==
               getDaysBetween(DateTime(lastPeriodStart(list)), DateTime(d))
       IN  /\ daysSinceLast >= st["cycleLength"]
           /\ daysSinceLast < st["cycleLength"] + st["periodLength"]

\* isFertile of getDateStatus
isFertile(list, st, d, t) ==
    /\ periodDays(list) # {}
    /\ isFuture(d, t)
    /\ st["cycleLength"] # 0
    /\ LET dayOfCycle == diffDays(list, d) % Abs(st["cycleLength"])
           ovulationDay == st["cycleLength"] - 14
       IN  /\ dayOfCycle >= ovulationDay - 4
           /\ dayOfCycle <= ovulationDay + 1

getDateStatus(list, st, d, t) ==
    [isPeriod |-> IF Exists(list, d) THEN FlowTruthy(Find(list, d)) ELSE FALSE,
     isToday |-> d = formatDate(t),
     isPredicted |-> isPredicted(list, st, d, t),
     isFertile |-> isFertile(list, st, d, t)]

\* the Calendar component is on screen
CalendarShown == Shown /\ view = "calendar"

NextCalendar ==
    \/ NextStats
    \/ \E v \in Views : setView(v)

SpecCalendar == InitStats /\ [][NextCalendar]_vars

----------------------------------------------------------------------------
(* Forms: the fields of SettingsForm and DailyLogger are typed into and    *)
(* saved as they stand, over a store that already holds settings and may   *)
(* hold a record of today.  SpecSettingsForm saves the settings form as it *)
(* was opened, SpecForms types into it, SpecLogForm types into the daily   *)
(* log.                                                                    *)

CycleInputs == {0, 30}
PeriodInputs == {0}

\* onChange of the cycle length input: parseInt(e.target.value) || 0
setCycleLength(c) ==
    /\ Shown
    /\ view = "settings"
    /\ settingsForm' = [settingsForm EXCEPT !["cycleLength"] = c]
    /\ effects' = {}
    /\ UNCHANGED <<user, view, logs, settings, loading, currentDay,
                   daysUntilNext, isPeriodToday, predicted, captured,
                   subscribed, remoteLogs, remoteSettings, pending, edits,
                   now, tz, auth, phase, settingsSub, leaked, logForm>>

\* onChange of the period length input
setPeriodLength(p) ==
    /\ Shown
    /\ view = "settings"
    /\ settingsForm' = [settingsForm EXCEPT !["periodLength"] = p]
    /\ effects' = {}
    /\ UNCHANGED <<user, view, logs, settings, loading, currentDay,
                   daysUntilNext, isPeriodToday, predicted, captured,
                   subscribed, remoteLogs, remoteSettings, pending, edits,
                   now, tz, auth, phase, settingsSub, leaked, logForm>>

\* SettingsForm.handleSave: parseInt(String(n)) of an integer n is n
SettingsFormSave ==
    /\ Shown
    /\ view = "settings"
    /\ handleSaveSettings([cycleLength |-> settingsForm["cycleLength"],
                           periodLength |-> settingsForm["periodLength"]])

\* a field of DailyLogger is set: setMood, setFlow, or toggleSymptom giving
\* the symptom set
setLogField(field, value) ==
    /\ Shown
    /\ view = "log"
    /\ logForm[field] # value
    /\ logForm' = [logForm EXCEPT ![field] = value]
    /\ effects' = {}
    /\ UNCHANGED <<user, view, logs, settings, loading, currentDay,
                   daysUntilNext, isPeriodToday, predicted, captured,
                   subscribed, remoteLogs, remoteSettings, pending, edits,
                   now, tz, auth, phase, settingsSub, leaked, settingsForm>>

setMood(m) ==
    /\ Shown
    /\ setLogField("mood", m)

setFlow(f) ==
    /\ Shown
    /\ setLogField("flow", f)

toggleSymptom(sym) ==
    /\ Shown
    /\ view = "log"
    /\ setLogField("symptoms", IF sym \in logForm["symptoms"]
                               THEN logForm["symptoms"] \ {sym}
                               ELSE logForm["symptoms"] \cup {sym})

\* DailyLogger.handleSave with the fields as they stand
DailyLoggerSave ==
    /\ Shown
    /\ view = "log"
    /\ handleSave(logForm["flow"], logForm["mood"], logForm["symptoms"])

\* the store holds settings other than the defaults, and maybe a record of
\* today
InitForms ==
    /\ user = NoUser
    /\ view = "dashboard"
    /\ logs = <<>>
    /\ settings = DefaultSettings
    /\ loading = TRUE
    /\ currentDay = 1
    /\ daysUntilNext = DefaultDaysUntilNext
    /\ isPeriodToday = FALSE
    /\ predicted = 0
    /\ captured = DefaultSettings
    /\ subscribed = NoUser
    /\ remoteLogs \in {[u \in Users |-> <<>>],
                       [u \in Users |-> (48 :> MoodDoc(48))]}
    /\ remoteSettings =
          [u \in Users |->
              (SettingsDocId :> [cycleLength |-> 30, periodLength |-> 5])]
    /\ pending = <<>>
    /\ edits = 0
    /\ now = FirstTick
    /\ tz = 0
    /\ auth = "Auth"
    /\ phase = "rendered"
    /\ settingsSub = NoUser
    /\ leaked = {}
    /\ effects = {}
    /\ settingsForm = Null
    /\ logForm = Null

\* a session in which the settings form is saved as it was opened
NextSettingsForm ==
    \/ AuthEffect
    \/ \E u \in Users \cup {NoUser} : onAuthStateChanged(u, TRUE, TRUE)
    \/ SettingsSnapshot
    \/ LogsSnapshot
    \/ SettingsFormSave
    \/ WriteCommit
    \/ WriteFail
    \/ \E v \in Views : setView(v)

SpecSettingsForm == InitForms /\ [][NextSettingsForm]_vars

\* a session in which the fields of the settings form are typed into
NextForms ==
    \/ NextSettingsForm
    \/ \E c \in CycleInputs : setCycleLength(c)
    \/ \E p \in PeriodInputs : setPeriodLength(p)

SpecForms == InitForms /\ [][NextForms]_vars

\* a session in which the fields of the daily log are typed into and dates
\* are toggled on the calendar
NextLogForm ==
    \/ AuthEffect
    \/ \E u \in Users \cup {NoUser} : onAuthStateChanged(u, TRUE, TRUE)
    \/ LogsSnapshot
    \/ \E m \in Moods \cup {Null} : setMood(m)
    \/ \E f \in Flows \cup {Null} : setFlow(f)
    \/ \E sym \in SymptomLabels : toggleSymptom(sym)
    \/ DailyLoggerSave
    \/ \E date \in EditDates : handleTogglePeriod(date)
    \/ WriteCommit
    \/ WriteFail
    \/ \E v \in Views : setView(v)

SpecLogForm == InitForms /\ [][NextLogForm]_vars

----------------------------------------------------------------------------
(* Properties *)

Last(seq) == seq[Len(seq)]

\* a record or document with no flow, no mood and no symptoms
EmptyLog(r) == Falsy(r, "flow") /\ Falsy(r, "mood") /\ NoSymptoms(r)

\* the write at the head of the queue comes from handleLogSave
LogWriteAtHead ==
    IF pending # <<>> THEN Head(pending)["from"] = "handleLogSave" ELSE FALSE

\* what the stored record of the head write's date would hold with the
\* fields of the write merged into it
MergedAtHead ==
    LET w == Head(pending)
        docs == remoteLogs[w["uid"]]
    IN  IF w["id"] \in DOMAIN docs THEN w["data"] @@ docs[w["id"]] ELSE w["data"]

\* C1: when the write of a save is acknowledged and the record, with the
\* fields of the save merged into what is stored, still has a flow, a mood
\* or a symptom, the stored record is that merged record: it is not deleted
\* and the fields the save did not provide keep their stored values.
C1_DeleteOnlyWhenEmpty ==
    [][(WriteCommit /\ LogWriteAtHead /\ ~EmptyLog(MergedAtHead)) =>
          LET w == Head(pending) IN
          /\ w["id"] \in DOMAIN remoteLogs'[w["uid"]]
          /\ remoteLogs'[w["uid"]][w["id"]] = MergedAtHead]_vars

\* C2: when the write of a save with no flow, no mood and no symptoms is
\* acknowledged, the remote store holds no record for the date of the save.
C2_EmptySaveDeletes ==
    [][(WriteCommit /\ LogWriteAtHead /\ EmptyLog(Head(pending)["data"])) =>
          Head(pending)["id"] \notin DOMAIN remoteLogs'[Head(pending)["uid"]]]_vars

\* a form save with everything empty was merged into a record that came
\* from the store, its write is settled and the store has no such record
C2_Witness ==
    /\ user # NoUser
    /\ pending = <<>>
    /\ \E i \in 1..Len(logs) :
          /\ ~Has(logs[i], "createdAt")
          /\ Has(logs[i], "mood")
          /\ EmptyLog(logs[i])
          /\ logs[i]["date"] \notin DOMAIN remoteLogs[user]

\* the records of date d in a list all have no flow
NoFlowOn(list, d) ==
    \A i \in 1..Len(list) : list[i]["date"] = d => ~FlowTruthy(list[i])

\* C3: a toggle on a date whose record is absent or has no flow leaves the
\* date's record with flow Medium and issues a write that stores Medium; a
\* toggle on a date whose record has a flow (as after the first toggle)
\* leaves the date with no flow, locally and in what its write stores.
C3_ToggleOnThenOff ==
    [][\A d \in EditDates : handleTogglePeriod(d) =>
          LET w == Last(pending')
              stored == ApplyToLogs(ViewLogs(remoteLogs[user], pending, user), w)
          IN  IF Exists(logs, d) /\ FlowTruthy(Find(logs, d))
              THEN /\ NoFlowOn(logs', d)
                   /\ d \in DOMAIN stored => ~FlowTruthy(stored[d])
              ELSE /\ Exists(logs', d)
                   /\ Find(logs', d)["flow"] = "Medium"
                   /\ d \in DOMAIN stored
                   /\ stored[d]["flow"] = "Medium"]_vars

\* a record that a toggle created and a second toggle cleared
C3_Witness ==
    \E i \in 1..Len(logs) :
        /\ DOMAIN logs[i] = {"id", "createdAt", "date", "flow"}
        /\ logs[i]["flow"] = Null

\* C4: the local log list has no two records of the same date, and every
\* remote log document is stored under its own date, so no two documents
\* of a user have the same date.
C4_OneLogPerDate ==
    /\ \A i, j \in 1..Len(logs) : logs[i]["date"] = logs[j]["date"] => i = j
    /\ \A u \in Users : \A k \in DOMAIN remoteLogs[u] :
          remoteLogs[u][k]["date"] = k

\* two dates are logged, locally and remotely, after saves and snapshots
C4_Witness ==
    /\ user # NoUser
    /\ Len(logs) >= 2
    /\ Cardinality(DOMAIN remoteLogs[user]) >= 2
    /\ edits >= 2

\* C5: handleSaveSettings(c, p) issues a write of exactly c and p, and when
\* the write is acknowledged the settings document is exactly that data.
C5_SettingsOverwrite ==
    [][/\ \A c \in CycleLengths, p \in PeriodLengths :
             handleSaveSettings([cycleLength |-> c, periodLength |-> p]) =>
                /\ Last(pending')["data"] = [cycleLength |-> c, periodLength |-> p]
                /\ Last(pending')["uid"] = user
       /\ (WriteCommit /\ Head(pending)["from"] = "handleSaveSettings") =>
             remoteSettings'[Head(pending)["uid"]] =
                 (SettingsDocId :> Head(pending)["data"])]_vars

\* a saved cycle length other than the default is what the store holds
C5_Witness ==
    /\ user # NoUser
    /\ pending = <<>>
    /\ SettingsDocId \in DOMAIN remoteSettings[user]
    /\ remoteSettings[user][SettingsDocId]["cycleLength"] # DefaultCycleLength

\* the records of a list that have a flow
FlowEntries(list) == SelectSeq(list, FlowTruthy)

\* the dates of a list that have a flow
FlowDates(list) == {list[i]["date"] : i \in {j \in 1..Len(list) : FlowTruthy(list[j])}}

\* C6: when a logs snapshot delivers a list with exactly one flow entry,
\* current-day is the number of days from that entry's date to now (a
\* started day counts as a day) and days-until-next is
\* max(0, L - current-day) for the cycle length L the settings hold now.
C6_SingleFlowEntry ==
    [][(LogsSnapshot /\ Len(FlowEntries(logs')) = 1) =>
          /\ currentDay' = CeilDays(now, DateTime(FlowEntries(logs')[1]["date"]))
          /\ daysUntilNext' = Max(0, settings'["cycleLength"] - currentDay')]_vars

\* the earliest date of each group of flow dates: a date with no other flow
\* date in the GroupGap days before it
GroupStarts(D) == {d \in D : \A e \in D : e < d => d - e > GroupGap}

MinOf(S) == CHOOSE x \in S : \A y \in S : x <= y
MaxOf(S) == CHOOSE x \in S : \A y \in S : y <= x

\* C7: when a logs snapshot delivers a list whose flow dates form two groups
\* and the earliest dates of the two groups are 20 to 45 days apart, the
\* predicted cycle length is the number of days between those two dates.
C7_TwoGroupsGap ==
    [][LogsSnapshot =>
          LET starts == GroupStarts(FlowDates(logs')) IN
          (/\ Cardinality(starts) = 2
           /\ MaxOf(starts) - MinOf(starts) >= MinGap
           /\ MaxOf(starts) - MinOf(starts) <= MaxGap)
          => predicted' = MaxOf(starts) - MinOf(starts)]_vars

\* 20 <= gap <= 45
GapInRange(gap) == gap >= MinGap /\ gap <= MaxGap

\* C8: when a logs snapshot delivers a list with flow entries, the gaps
\* between successive period starts that lie in 20..45, both ends included,
\* are the ones averaged: if there is such a gap, the predicted cycle length
\* is the rounded average of exactly those gaps.
C8_GapsKeptInclusive ==
    [][(LogsSnapshot /\ Len(flowLogs(logs')) >= 1) =>
          LET kept == SelectSeq(Gaps(periodStarts(flowLogs(logs'))), GapInRange)
          IN  Len(kept) > 0 => predicted' = Round(SumSeq(kept), Len(kept))]_vars

\* the history of a list yields no predicted length: fewer than two flow
\* logs, or no gap between period starts that the averaging keeps
NoPredictedLength(list) ==
    IF Len(flowLogs(list)) < 2 THEN TRUE
    ELSE SelectSeq(Gaps(periodStarts(flowLogs(list))), GapKept) = <<>>

\* C9: when a logs snapshot delivers a list that yields no predicted
\* length, days-until-next comes from the cycle length L the settings hold:
\* it is max(0, L - current-day), or L itself when there is no flow log.
C9_FallBackToConfigured ==
    [][(LogsSnapshot /\ NoPredictedLength(logs')) =>
          \/ daysUntilNext' = Max(0, settings'["cycleLength"] - currentDay')
          \/ /\ Len(flowLogs(logs')) = 0
             /\ daysUntilNext' = settings'["cycleLength"]]_vars

\* C10: after every step that changes the local log list or the settings,
\* the displayed statistics are those of the statistics function applied to
\* the new log list and the new settings.
C10_StatsFollowState ==
    [][(logs' # logs \/ settings' # settings) =>
          LET stats == calculateCycleStats(logs', settings', now') IN
          /\ currentDay' = stats["currentDay"]
          /\ daysUntilNext' = stats["daysUntilNext"]
          /\ isPeriodToday' = stats["isPeriodToday"]]_vars

\* the write at the head of the queue is the defaults write of the settings
\* listener
DefaultsWriteAtHead ==
    IF pending # <<>> THEN Head(pending)["from"] = "snapshot" ELSE FALSE

\* C11: the settings listener issues a write only when the snapshot it got
\* has no settings document, and that write carries the defaults 28 and 5;
\* when a defaults write is acknowledged the user had no settings document,
\* so no existing document is overwritten by defaults.
C11_DefaultsOnlyWhenAbsent ==
    [][/\ \A uid \in Users : (SettingsSnapshotOf(uid) /\ pending' # pending) =>
             /\ SettingsDocId \notin
                    DOMAIN ViewSettings(remoteSettings[uid], pending, uid)
             /\ Last(pending')["data"] =
                    [cycleLength |-> DefaultCycleLength,
                     periodLength |-> DefaultPeriodLength]
       /\ (WriteCommit /\ DefaultsWriteAtHead) =>
             /\ SettingsDocId \notin DOMAIN remoteSettings[Head(pending)["uid"]]
             /\ remoteSettings'[Head(pending)["uid"]][SettingsDocId] =
                    DefaultSettings]_vars

\* the listener has delivered a saved document that is not the defaults,
\* nothing is in flight and the store still holds that document
C11_Witness ==
    /\ settingsSub # NoUser
    /\ pending = <<>>
    /\ SettingsDocId \in DOMAIN remoteSettings[settingsSub]
    /\ remoteSettings[settingsSub][SettingsDocId]["cycleLength"] = 30
    /\ settings = remoteSettings[settingsSub][SettingsDocId]

\* the lines the handlers write with console.error
ConsoleErrors ==
    {"console.error: Save failed", "console.error: Failed to save settings",
     "console.error: Firestore error", "console.error: Firestore setup failed"}

\* the alerts the handlers raise
Alerts == {"alert: Failed to save to cloud"}

\* the write at the head of the queue was issued by a user edit
EditWriteAtHead ==
    IF pending # <<>>
    THEN Head(pending)["from"] \in {"handleLogSave", "handleSaveSettings"}
    ELSE FALSE

\* C12: when the store rejects the write of a log save, a log delete or a
\* settings save, the failure is written to the console and an alert is
\* raised, and the write leaves the queue without being issued again.
C12_FailedWriteAlerts ==
    [][(WriteFail /\ EditWriteAtHead) =>
          /\ effects' \cap ConsoleErrors # {}
          /\ effects' \cap Alerts # {}
          /\ pending' = Tail(pending)]_vars

\* C13: when the error callback of the logs listener runs, loading is off
\* afterwards and the local log list, the settings and the displayed
\* statistics are what they were before the error.
C13_LogsErrorKeepsState ==
    [][LogsSnapshotError =>
          /\ loading' = FALSE
          /\ logs' = logs
          /\ settings' = settings
          /\ currentDay' = currentDay
          /\ daysUntilNext' = daysUntilNext
          /\ isPeriodToday' = isPeriodToday]_vars

\* the logs listener has just reported an error to a user whose logs and
\* saved settings had been delivered: they are still there, loading is off
C13_Witness ==
    /\ effects = {"console.error: Firestore error"}
    /\ user # NoUser
    /\ ~loading
    /\ logs # <<>>
    /\ settings # DefaultSettings
    /\ currentDay > 1

\* C17: every live data listener, of settings or of logs, belongs to the
\* user who is signed in now: there is none while nobody is signed in and
\* none of a previous session, whatever failed when it was set up.
C17_ListenersOfCurrentUser ==
    /\ \A uid \in SettingsListeners : uid = user
    /\ subscribed # NoUser => subscribed = user

\* C18: when the backend failed to initialize and the placeholders are in
\* place, the application never crashes.
C18_PlaceholdersNoCrash ==
    auth = "placeholder" => phase # "crashed"

\* C14: on the calendar, a future date after a logged period is fertile
\* exactly when its offset from the last flow date, modulo the cycle length
\* L, is one of the five offsets L-14-3 .. L-14+1.
C14_FertileBandOfFive ==
    \A d \in CalendarDates :
        (CalendarShown /\ periodDays(logs) # {} /\ isFuture(d, now)) =>
            LET offset == diffDays(logs, d) % settings["cycleLength"]
                o == settings["cycleLength"] - 14
            IN  getDateStatus(logs, settings, d, now)["isFertile"]
                    <=> (offset >= o - 3 /\ offset <= o + 1)

\* the date is future and some whole number k >= 1 of cycles plus less than
\* a period length after the last flow date
InRepeatOfPeriod(list, st, d, t) ==
    /\ periodDays(list) # {}
    /\ isFuture(d, t)
    /\ \E k \in 1..diffDays(list, d) :
          /\ k * st["cycleLength"] <= diffDays(list, d)
          /\ diffDays(list, d) < k * st["cycleLength"] + st["periodLength"]

\* C15 as stated: on the calendar a date is a predicted period exactly when
\* it is future and k cycles plus less than a period length after the last
\* flow date, for some k >= 1.
C15_PredictedEveryCycle ==
    \A d \in CalendarDates : CalendarShown =>
        (getDateStatus(logs, settings, d, now)["isPredicted"]
            <=> InRepeatOfPeriod(logs, settings, d, now))

\* the date is future and one cycle plus less than a period length away
\* from the last flow date
InNextPeriod(list, st, d, t) ==
    /\ periodDays(list) # {}
    /\ isFuture(d, t)
    /\ st["cycleLength"] <= diffDays(list, d)
    /\ diffDays(list, d) < st["cycleLength"] + st["periodLength"]

\* C15: on the calendar a date is a predicted period exactly when it is
\* future and its distance from the last flow date is at least one cycle
\* length and less than one cycle length plus the period length: only the
\* next cycle is projected.
C15_PredictedNextCycleOnly ==
    \A d \in CalendarDates : CalendarShown =>
        (getDateStatus(logs, settings, d, now)["isPredicted"]
            <=> InNextPeriod(logs, settings, d, now))

\* the calendar shows a predicted period one cycle after the last flow
\* date and none two cycles after it
C15_Witness ==
    /\ CalendarShown
    /\ \E d \in CalendarDates :
          /\ isFuture(d, now)
          /\ getDateStatus(logs, settings, d, now)["isPredicted"]
    /\ \E d \in CalendarDates :
          /\ isFuture(d, now)
          /\ periodDays(logs) # {}
          /\ diffDays(logs, d) = 2 * settings["cycleLength"]
          /\ ~getDateStatus(logs, settings, d, now)["isPredicted"]

\* the step issues the write of a user edit
EditWriteIssued ==
    /\ Len(pending') = Len(pending) + 1
    /\ Last(pending')["from"] \in {"handleLogSave", "handleSaveSettings"}

\* C16: in the step in which a user edit issues its remote write, the local
\* state already holds the change: the settings are the saved settings, or
\* the log list has a record of the saved date with the saved fields.
C16_OptimisticBeforeWrite ==
    [][EditWriteIssued =>
          LET w == Last(pending') IN
          IF w["from"] = "handleSaveSettings"
          THEN settings' = w["data"]
          ELSE /\ Exists(logs', w["id"])
               /\ \A k \in DOMAIN w["data"] :
                     /\ Has(Find(logs', w["id"]), k)
                     /\ Find(logs', w["id"])[k] = w["data"][k]]_vars

\* C19: a save, a toggle or a navigation happens only from the views, and
\* the views are on screen only with a user signed in and loading off;
\* with nobody signed in and loading off the screen is the login screen.
C19_LoginGate ==
    [][/\ (edits' # edits \/ \E v \in Views : setView(v)) =>
             (Screen = "app" /\ user # NoUser /\ ~loading)
       /\ Screen = "app" => (user # NoUser /\ ~loading)
       /\ (user = NoUser /\ ~loading) => Screen = "login"]_vars

\* the user has made edits and signed out: the login screen is back
C19_Witness ==
    /\ user = NoUser
    /\ ~loading
    /\ edits > 0
    /\ Screen = "login"

\* C20: days-until-next is a non-negative integer and current-day is
\* non-negative; when the statistics were computed with a predicted cycle
\* length and current-day has reached it, days-until-next is 0.
C20_DaysUntilNextNonNegative ==
    /\ daysUntilNext \in Nat
    /\ currentDay >= 0
    /\ (predicted # 0 /\ currentDay >= predicted) => daysUntilNext = 0

\* the last period is longer ago than the predicted cycle length and the
\* display says 0 days until the next
C20_Witness ==
    /\ user # NoUser
    /\ predicted # 0
    /\ currentDay > predicted
    /\ daysUntilNext = 0

\* the step is a save or a toggle issuing its write
LogSaveIssued ==
    /\ EditWriteIssued
    /\ Last(pending')["from"] = "handleLogSave"

\* C21: right after a save or toggle for date d, the local log list has a
\* record of d exactly when the store will have one once the writes issued
\* so far are acknowledged; an all-empty save leaves no local record of d.
C21_OptimisticMirrorsWrite ==
    [][LogSaveIssued =>
          LET w == Last(pending')
              stored == ViewLogs(remoteLogs[user], pending', user)
          IN  /\ Exists(logs', w["id"]) <=> w["id"] \in DOMAIN stored
              /\ ClearsAll(w["data"]) => ~Exists(logs', w["id"])]_vars

\* C24: every record of the local log list and every log document of the
\* remote store has a creation timestamp.
C24_CreatedAtEverywhere ==
    /\ \A i \in 1..Len(logs) : Has(logs[i], "createdAt")
    /\ \A u \in Users : \A k \in DOMAIN remoteLogs[u] :
          Has(remoteLogs[u][k], "createdAt")

\* C25: a save of the settings form as it was opened writes the settings
\* the listener has delivered, the ones held locally at the time of the
\* save, never older ones.
C25_FormFollowsSettings ==
    [][SettingsFormSave => Last(pending')["data"] = settings]_vars

\* the record of date d of a list is the same record in another list, or
\* is missing from both
SameRecord(list, other, d) ==
    /\ Exists(list, d) <=> Exists(other, d)
    /\ Exists(list, d) => Find(list, d) = Find(other, d)

\* C26: while the daily log stays on screen, a logs snapshot that changes
\* the list but leaves the record of today as it was leaves the fields of
\* the form as the user has set them.
C26_UnsavedEditsKept ==
    [][(/\ LogsSnapshot
        /\ Shown /\ view = "log"
        /\ logs' # logs
        /\ SameRecord(logs, logs', formatDate(now))) =>
          logForm' = logForm]_vars

\* C30: the settings held locally, and every settings document of the
\* store, have a cycle length and a period length of at least 1.
C30_LengthsAtLeastOne ==
    /\ settings["cycleLength"] >= 1
    /\ settings["periodLength"] >= 1
    /\ \A u \in Users : \A k \in DOMAIN remoteSettings[u] :
          /\ remoteSettings[u][k]["cycleLength"] >= 1
          /\ remoteSettings[u][k]["periodLength"] >= 1

\* C27: on the calendar, no date is a predicted period or fertile while the
\* log list has no flow entry, and today and the dates before today never
\* are.
C27_NoOverlayTodayOrPast ==
    \A d \in CalendarDates : CalendarShown =>
        ((periodDays(logs) = {} \/ d <= formatDate(now)) =>
            /\ ~getDateStatus(logs, settings, d, now)["isPredicted"]
            /\ ~getDateStatus(logs, settings, d, now)["isFertile"])

\* the settings a user can own: the defaults or the stored document
OwnSettings(u) ==
    {DefaultSettings} \cup {remoteSettings[u][k] : k \in DOMAIN remoteSettings[u]}

\* C29: while a user is signed in and the views are on screen, the local
\* log list is empty or the list of that user's stored records, the
\* settings are the defaults or that user's, and the statistics are the
\* initial ones or those of that user's records.
C29_OnlyOwnData ==
    Shown =>
        LET own == OrderByDateDesc(remoteLogs[user]) IN
        /\ logs \in {<<>>, own}
        /\ settings \in OwnSettings(user)
        /\ \/ /\ currentDay = 1
              /\ daysUntilNext = DefaultDaysUntilNext
              /\ ~isPeriodToday
           \/ \E st \in OwnSettings(user) :
                 LET stats == calculateCycleStats(own, st, now) IN
                 /\ currentDay = stats["currentDay"]
                 /\ daysUntilNext = stats["daysUntilNext"]
                 /\ isPeriodToday = stats["isPeriodToday"]

\* the list holds exactly the documents: one record per document, with the
\* document's fields and the document's key as id, and nothing else
ListEqualsDocs(list, docs) ==
    /\ Len(list) = Cardinality(DOMAIN docs)
    /\ \A k \in DOMAIN docs : Exists(list, docs[k]["date"])
    /\ \A i \in 1..Len(list) :
          /\ list[i]["id"] \in DOMAIN docs
          /\ list[i] = docs[list[i]["id"]] @@ ("id" :> list[i]["id"])

\* C22: a logs snapshot delivered when no write is in flight leaves the
\* local log list equal to the user's remote collection: the same dates
\* with the same fields, and no record that only an optimistic update made.
C22_SnapshotReplacesList ==
    [][(LogsSnapshot /\ pending = <<>>) =>
          ListEqualsDocs(logs', remoteLogs[subscribed])]_vars

\* after edits, with every write settled, the list is the remote
\* collection and has none of the records the optimistic updates created
C22_Witness ==
    /\ user # NoUser
    /\ edits >= 2
    /\ pending = <<>>
    /\ logs # <<>>
    /\ ListEqualsDocs(logs, remoteLogs[user])
    /\ \A i \in 1..Len(logs) : ~Has(logs[i], "createdAt")

\* C23: when the store rejects the write of a save or toggle, the local log
\* list stays as the optimistic update left it and the store's records are
\* unchanged.
C23_NoRollbackOnFailure ==
    [][(WriteFail /\ LogWriteAtHead) =>
          /\ logs' = logs
          /\ remoteLogs' = remoteLogs]_vars

\* a save has just been rejected: the alert is up, the record the
\* optimistic update created is still on the list and is not in the store
C23_Witness ==
    /\ "alert: Failed to save to cloud" \in effects
    /\ user # NoUser
    /\ \E i \in 1..Len(logs) :
          /\ Has(logs[i], "createdAt")
          /\ logs[i]["date"] \notin DOMAIN remoteLogs[user]

\* C28: a save or toggle for date d leaves the local records of the other
\* dates, the settings and the whole store as they are when it is issued,
\* and when its write is acknowledged the store's documents of the other
\* dates and the settings, stored and local, are unchanged.
C28_OtherDatesUntouched ==
    [][/\ LogSaveIssued =>
             /\ \A d \in EditDates \ {Last(pending')["id"]} :
                   SameRecord(logs, logs', d)
             /\ settings' = settings
             /\ remoteLogs' = remoteLogs
             /\ remoteSettings' = remoteSettings
       /\ (WriteCommit /\ LogWriteAtHead) =>
             /\ \A u \in Users : \A d \in EditDates :
                   (u # Head(pending)["uid"] \/ d # Head(pending)["id"]) =>
                      /\ d \in DOMAIN remoteLogs'[u] <=> d \in DOMAIN remoteLogs[u]
                      /\ d \in DOMAIN remoteLogs[u] =>
                            remoteLogs'[u][d] = remoteLogs[u][d]
             /\ settings' = settings
             /\ remoteSettings' = remoteSettings]_vars

\* both dates have been saved and acknowledged and a snapshot has
\* delivered both records
C28_Witness ==
    /\ user # NoUser
    /\ pending = <<>>
    /\ DOMAIN remoteLogs[user] = EditDates
    /\ Len(logs) = Cardinality(EditDates)
    /\ \A i \in 1..Len(logs) : ~Has(logs[i], "createdAt")

====
